---- MODULE Spec2Model ----
(***************************************************************************)
(* A model of tal_preset_gen.py: filename parsing (auto-detect and         *)
(* template), grouping by root, key and velocity range partitioning,       *)
(* duplicate resolution and preset assembly.                               *)
(*                                                                         *)
(* Three specifications:                                                   *)
(*   Spec      main(): sample paths are parsed, make_tal is run, the path  *)
(*             of the preset is printed;                                   *)
(*   SpecCore  make_tal() called directly with a list of SampleEntry and   *)
(*             a configuration (spreads may be None, as its signature and  *)
(*             compute_key_ranges allow);                                  *)
(*   SpecKeys  the pure function compute_key_ranges on sorted roots.       *)
(*                                                                         *)
(* An Optional value is << >> (None) or <<x>>.  A file stem is the pair of *)
(* tokens the regular expressions read from it: the note token (letter,    *)
(* accidental, octave text) and the digits after the velocity marker.      *)
(***************************************************************************)
EXTENDS Integers, Sequences, FiniteSets, TLC

VARIABLES args, sample_paths, pc, p, entries, stdout, exit_status, raised,
          by_note, roots, key_ranges, ri, multis, copied, preset

vars == <<args, sample_paths, pc, p, entries, stdout, exit_status, raised,
          by_note, roots, key_ranges, ri, multis, copied, preset>>

mainVars == <<args, sample_paths, p, entries, stdout, exit_status>>
talVars == <<by_note, roots, key_ranges, ri, multis, copied, preset, raised>>

-----------------------------------------------------------------------------
(* Bounds of the model *)

MaxFiles == 3
MaxEntries == 2
MaxRoots == 3
MaxSpread == 2
EdgeSpan == 3

(* Constants of the program *)

MaxKey == 127
MaxVel == 127
MinVel == 1
VelDigits == 3
DefaultMiddleC == 3
DefaultSpread == 12

-----------------------------------------------------------------------------
(* Optional values, Python's None *)

None == << >>
Some(x) == <<x>>
Val(o) == o[1]

max(a, b) == IF a >= b THEN a ELSE b
min(a, b) == IF a <= b THEN a ELSE b
Range(s) == {s[i] : i \in DOMAIN s}

(* sorted(): the ascending list of a collection without repetitions *)
RECURSIVE sorted(_)
sorted(S) ==
    IF S = {} THEN << >>
    ELSE LET m == CHOOSE x \in S : \A y \in S : x <= y
         IN  <<m>> \o sorted(S \ {m})

-----------------------------------------------------------------------------
(* Pitch parsing *)

NOTE_TO_SEMI ==
    (<<"C", "">> :> 0) @@ (<<"C", "#">> :> 1) @@ (<<"D", "B">> :> 1) @@
    (<<"D", "">> :> 2) @@ (<<"D", "#">> :> 3) @@ (<<"E", "B">> :> 3) @@
    (<<"E", "">> :> 4) @@
    (<<"F", "">> :> 5) @@ (<<"F", "#">> :> 6) @@ (<<"G", "B">> :> 6) @@
    (<<"G", "">> :> 7) @@ (<<"G", "#">> :> 8) @@ (<<"A", "B">> :> 8) @@
    (<<"A", "">> :> 9) @@ (<<"A", "#">> :> 10) @@ (<<"B", "B">> :> 10) @@
    (<<"B", "">> :> 11)

Letters == {"A", "B", "C", "D", "E", "F", "G", "a", "b", "c", "d", "e", "f", "g"}
Accidentals == {"", "#", "b", "B"}

(* str.upper() on the characters a note token can hold *)
upper(c) ==
    CASE c = "a" -> "A" [] c = "b" -> "B" [] c = "c" -> "C" [] c = "d" -> "D"
      [] c = "e" -> "E" [] c = "f" -> "F" [] c = "g" -> "G" [] OTHER -> c

(* int() of a string of decimal digits, most significant first *)
RECURSIVE int_digits(_)
int_digits(ds) ==
    IF ds = << >> THEN 0
    ELSE 10 * int_digits(SubSeq(ds, 1, Len(ds) - 1)) + ds[Len(ds)]

(* int() of the octave text: an optional minus sign and digits *)
int_octave(o) == IF o.neg THEN 0 - int_digits(o.digits) ELSE int_digits(o.digits)

(* note_to_midi(note, middle_c): None or the MIDI number, not clamped *)
note_to_midi(note, middle_c) ==
    IF ~(note.l \in Letters /\ note.a \in Accidentals /\ Len(note.o.digits) >= 1)
    THEN None
    ELSE LET key == <<upper(note.l), upper(note.a)>>
         IN  IF key \notin DOMAIN NOTE_TO_SEMI
             THEN None
             ELSE Some(60 + 12 * (int_octave(note.o) - middle_c) + NOTE_TO_SEMI[key])

(* auto_detect(name, middle_c): the first note token, and the first one to *)
(* three digits after a velocity marker, kept only inside [1,127]          *)
auto_detect(name, middle_c) ==
    LET root == IF name.note # None THEN note_to_midi(Val(name.note), middle_c)
                ELSE None
        v == int_digits(SubSeq(Val(name.vel), 1, min(VelDigits, Len(Val(name.vel)))))
        vel == IF name.vel # None /\ MinVel <= v /\ v <= MaxVel THEN Some(v) ELSE None
    IN  [root |-> root, vel |-> vel]

(* build_regex_from_pattern(pattern): the template as the slots it holds   *)
build_regex_from_pattern(pattern) == pattern

(* rx.match(stem): a whole-string match; the stem must hold exactly the    *)
(* tokens the template has slots for.  None or the groupdict.              *)
rx_match(rx, stem) ==
    IF (rx.note <=> stem.note # None) /\ (rx.vel <=> stem.vel # None)
    THEN Some([note |-> stem.note, vel |-> stem.vel])
    ELSE None

(* main's template branch after a match: note_to_midi of the note group,   *)
(* int() of the whole velocity group, no range check                       *)
template_parse(groups, middle_c) ==
    [root |-> IF groups.note # None THEN note_to_midi(Val(groups.note), middle_c)
              ELSE None,
     vel |-> IF groups.vel # None THEN Some(int_digits(Val(groups.vel))) ELSE None]

-----------------------------------------------------------------------------
(* Range partitioning *)

(* compute_key_ranges with a range starting at the midpoint itself, not   *)
(* one past it                                                             *)
compute_key_ranges_shared_midpoint(sorted_roots, low_spread, high_spread) ==
    LET n == Len(sorted_roots)
        lo(i) == IF i = 1
                 THEN IF low_spread = None THEN 0
                      ELSE max(0, sorted_roots[i] - Val(low_spread))
                 ELSE (sorted_roots[i - 1] + sorted_roots[i]) \div 2
        hi(i) == IF i = n
                 THEN IF high_spread = None THEN MaxKey
                      ELSE min(MaxKey, sorted_roots[i] + Val(high_spread))
                 ELSE (sorted_roots[i] + sorted_roots[i + 1]) \div 2
    IN  [r \in Range(sorted_roots) |->
            LET i == CHOOSE j \in 1..n : sorted_roots[j] = r
            IN  <<lo(i), hi(i)>>]

(* compute_key_ranges with the midpoint given to the upper root *)
compute_key_ranges_upper_midpoint(sorted_roots, low_spread, high_spread) ==
    LET n == Len(sorted_roots)
        lo(i) == IF i = 1
                 THEN IF low_spread = None THEN 0
                      ELSE max(0, sorted_roots[i] - Val(low_spread))
                 ELSE (sorted_roots[i - 1] + sorted_roots[i] + 1) \div 2
        hi(i) == IF i = n
                 THEN IF high_spread = None THEN MaxKey
                      ELSE min(MaxKey, sorted_roots[i] + Val(high_spread))
                 ELSE (sorted_roots[i] + sorted_roots[i + 1] + 1) \div 2 - 1
    IN  [r \in Range(sorted_roots) |->
            LET i == CHOOSE j \in 1..n : sorted_roots[j] = r
            IN  <<lo(i), hi(i)>>]

(* compute_key_ranges(sorted_roots, low_spread, high_spread) *)
compute_key_ranges(sorted_roots, low_spread, high_spread) ==
    LET n == Len(sorted_roots)
        lo(i) == IF i = 1
                 THEN IF low_spread = None THEN 0
                      ELSE max(0, sorted_roots[i] - Val(low_spread))
                 ELSE (sorted_roots[i - 1] + sorted_roots[i]) \div 2 + 1
        hi(i) == IF i = n
                 THEN IF high_spread = None THEN MaxKey
                      ELSE min(MaxKey, sorted_roots[i] + Val(high_spread))
                 ELSE (sorted_roots[i] + sorted_roots[i + 1]) \div 2
    IN  [r \in Range(sorted_roots) |->
            LET i == CHOOSE j \in 1..n : sorted_roots[j] = r
            IN  <<lo(i), hi(i)>>]

(* compute_vel_ranges with a layer starting at the previous velocity, not *)
(* one past it                                                             *)
compute_vel_ranges_shared_bound(vels) ==
    LET vs == sorted(Range(vels))
        m == Len(vs)
    IN  [j \in 1..m |->
            <<vs[j],
              IF j = 1 THEN 0 ELSE vs[j - 1],
              IF j = m THEN MaxVel ELSE vs[j]>>]

(* compute_vel_ranges(vels): a list of <<v, lo, hi>>, the last hi forced   *)
(* to 127                                                                  *)
compute_vel_ranges(vels) ==
    LET vs == sorted(Range(vels))
        m == Len(vs)
    IN  [j \in 1..m |->
            <<vs[j],
              IF j = 1 THEN 0 ELSE vs[j - 1] + 1,
              IF j = m THEN MaxVel ELSE vs[j]>>]

-----------------------------------------------------------------------------
(* make_tal's per-root steps *)

(* the truth value of s.vel_hi: None and 0 are false *)
truthy(vel_hi) == vel_hi # None /\ Val(vel_hi) # 0

any_vel(samples) == \E i \in DOMAIN samples : truthy(samples[i].vel_hi)

(* The vel_map loop over the first k samples of a root: the map so far,    *)
(* and whether the loop has raised                                         *)
RECURSIVE build_vel_map(_, _, _)
build_vel_map(samples, k, on_duplicate) ==
    IF k = 0 THEN [map |-> << >>, raised |-> FALSE]
    ELSE LET acc == build_vel_map(samples, k - 1, on_duplicate)
             s == samples[k]
         IN  IF acc.raised \/ s.vel_hi = None THEN acc
             ELSE LET v == Val(s.vel_hi)
                  IN  IF v \in DOMAIN acc.map
                      THEN IF on_duplicate = "error"
                           THEN [acc EXCEPT !.raised = TRUE]
                           ELSE IF on_duplicate = "keep-last"
                                THEN [acc EXCEPT !.map = (v :> s) @@ acc.map]
                                ELSE acc
                      ELSE [acc EXCEPT !.map = (v :> s) @@ acc.map]

(* The url of a zone: the copy under Samples/ or the source itself *)
zone_url(src, copy_samples) ==
    [dir |-> IF copy_samples THEN "Samples" ELSE "source", file |-> src]

multisample(s, r, keys, loVel, hiVel, copy_samples) ==
    [url |-> zone_url(s.path, copy_samples), rootkey |-> r,
     lowkey |-> keys[1], highkey |-> keys[2],
     velocitystart |-> loVel, velocityend |-> hiVel]

(* The zones one root adds when none of its samples has a true velocity *)
zones_no_vel(r, samples, keys, copy_samples) ==
    <<multisample(samples[1], r, keys, 0, MaxVel, copy_samples)>>

(* The zones one root adds from its vel_map *)
zones_of_vel_map(r, vel_map, keys, copy_samples) ==
    LET vel_ranges == compute_vel_ranges(sorted(DOMAIN vel_map))
    IN  [j \in DOMAIN vel_ranges |->
            multisample(vel_map[vel_ranges[j][1]], r, keys,
                        vel_ranges[j][2], vel_ranges[j][3], copy_samples)]

-----------------------------------------------------------------------------
(* Inputs *)

Tok(l, a, neg, digits) == [l |-> l, a |-> a, o |-> [neg |-> neg, digits |-> digits]]
Stem(note, vel) == [note |-> note, vel |-> vel]

(* The file stems a run may be given: B2, C3_v40, C3_v0, C3_v130, C3_v200, *)
(* Cb3_v40 (a spelling the table lacks), C20_v40 (an octave beyond the     *)
(* keyboard) and kick (no note, no velocity)                               *)
Stems ==
    { Stem(Some(Tok("B", "", FALSE, <<2>>)), None),
      Stem(Some(Tok("C", "", FALSE, <<3>>)), Some(<<4, 0>>)),
      Stem(Some(Tok("C", "", FALSE, <<3>>)), Some(<<0>>)),
      Stem(Some(Tok("C", "", FALSE, <<3>>)), Some(<<1, 3, 0>>)),
      Stem(Some(Tok("C", "", FALSE, <<3>>)), Some(<<2, 0, 0>>)),
      Stem(Some(Tok("C", "b", FALSE, <<3>>)), Some(<<4, 0>>)),
      Stem(Some(Tok("C", "", FALSE, <<2, 0>>)), Some(<<4, 0>>)),
      Stem(None, None) }

(* --pattern: absent, or a template with a note slot and maybe a velocity slot *)
Patterns == {None, Some([note |-> TRUE, vel |-> TRUE]), Some([note |-> TRUE, vel |-> FALSE])}
MiddleCs == {DefaultMiddleC, DefaultMiddleC + 1}
Policies == {"error", "keep-first", "keep-last"}

(* --low-spread / --high-spread are integers in main *)
MainSpreads == {Some(0), Some(DefaultSpread)}
(* make_tal and compute_key_ranges also take None *)
CoreSpreads == {None, Some(0), Some(DefaultSpread)}
KeySpreads == {None} \cup {Some(s) : s \in 0..MaxSpread}

CoreRoots == {0 - 1, 60, 61, MaxKey + 3}
CoreVels == {None, Some(0), Some(40), Some(90), Some(MaxVel + 3)}

SampleEntry(path, root_midi, vel_hi) ==
    [path |-> path, root_midi |-> root_midi, vel_hi |-> vel_hi]

CoreEntryLists ==
    UNION { { [i \in 1..n |-> SampleEntry(i, rv[i][1], rv[i][2])] :
                rv \in [1..n -> CoreRoots \X CoreVels] } : n \in 1..MaxEntries }

(* The roots compute_key_ranges is tried on: near both ends of the         *)
(* keyboard and around middle C                                            *)
RootPool ==
    {k \in 0..MaxKey : \/ k <= EdgeSpan
                       \/ k >= MaxKey - EdgeSpan
                       \/ (k >= 60 - EdgeSpan /\ k <= 60 + EdgeSpan)}

ValueError == [type |-> "ValueError", message |-> "duplicate velocity", data |-> << >>]

-----------------------------------------------------------------------------
(* main *)

Init ==
    /\ args \in [pattern : Patterns, middle_c : MiddleCs, copy_samples : BOOLEAN,
                 on_duplicate : Policies, low_spread : MainSpreads,
                 high_spread : MainSpreads]
    /\ sample_paths \in UNION {[1..n -> Stems] : n \in 0..MaxFiles}
    /\ pc = "start"
    /\ p = 0
    /\ entries = << >>
    /\ stdout = << >>
    /\ exit_status = None
    /\ raised = None
    /\ by_note = << >>
    /\ roots = << >>
    /\ key_ranges = << >>
    /\ ri = 0
    /\ multis = << >>
    /\ copied = {}
    /\ preset = None

(* main up to the loop: an empty sample list ends the run with status 1 *)
MainStart ==
    /\ pc = "start"
    /\ IF sample_paths = << >>
       THEN /\ stdout' = Append(stdout, [text |-> "no samples"])
            /\ exit_status' = Some(1)
            /\ pc' = "exit"
            /\ p' = p
       ELSE /\ p' = 1
            /\ pc' = "main_loop"
            /\ UNCHANGED <<stdout, exit_status>>
    /\ UNCHANGED <<args, sample_paths, entries>>
    /\ UNCHANGED talVars

(* What one pass of main's loop reads from a stem: None (continue) or the  *)
(* root and velocity of the entry it appends                               *)
parse_stem(stem, pattern, middle_c) ==
    IF pattern # None
    THEN LET m == rx_match(build_regex_from_pattern(Val(pattern)), stem)
         IN  IF m = None THEN None
             ELSE LET rv == template_parse(Val(m), middle_c)
                  IN  IF rv.root = None THEN None ELSE Some(rv)
    ELSE LET rv == auto_detect(stem, middle_c)
         IN  IF rv.root = None THEN None ELSE Some(rv)

(* One pass of the loop over sample_paths *)
MainParse ==
    /\ pc = "main_loop"
    /\ p <= Len(sample_paths)
    /\ LET got == parse_stem(sample_paths[p], args.pattern, args.middle_c)
       IN  entries' = IF got = None THEN entries
                      ELSE Append(entries,
                                  SampleEntry(p, Val(Val(got).root), Val(got).vel))
    /\ p' = p + 1
    /\ UNCHANGED <<args, sample_paths, pc, stdout, exit_status>>
    /\ UNCHANGED talVars

(* After the loop: no entry ends the run with status 2, else make_tal is called *)
MainCheckEntries ==
    /\ pc = "main_loop"
    /\ p > Len(sample_paths)
    /\ IF entries = << >>
       THEN /\ stdout' = Append(stdout, [text |-> "no valid samples"])
            /\ exit_status' = Some(2)
            /\ pc' = "exit"
       ELSE /\ pc' = "make_tal"
            /\ UNCHANGED <<stdout, exit_status>>
    /\ UNCHANGED <<args, sample_paths, p, entries>>
    /\ UNCHANGED talVars

(* make_tal returned: its path is printed and the run ends with status 0 *)
MainPrint ==
    /\ pc = "returned"
    /\ stdout' = Append(stdout, [text |-> "out_path"])
    /\ exit_status' = Some(0)
    /\ pc' = "exit"
    /\ UNCHANGED <<args, sample_paths, p, entries>>
    /\ UNCHANGED talVars

(* make_tal raised: nothing in main catches it, the interpreter ends the   *)
(* run with status 1 and prints nothing on stdout                          *)
MainUncaught ==
    /\ pc = "raised"
    /\ exit_status' = Some(1)
    /\ pc' = "exit"
    /\ UNCHANGED <<args, sample_paths, p, entries, stdout>>
    /\ UNCHANGED talVars

-----------------------------------------------------------------------------
(* make_tal *)

(* Grouping by root, the sorted roots and their key ranges *)
MakeTalBegin ==
    /\ pc = "make_tal"
    /\ LET keys == {entries[i].root_midi : i \in DOMAIN entries}
       IN  /\ by_note' = [r \in keys |->
                            SelectSeq(entries, LAMBDA e : e.root_midi = r)]
           /\ roots' = sorted(keys)
           /\ key_ranges' = compute_key_ranges(sorted(keys), args.low_spread,
                                               args.high_spread)
    /\ multis' = << >>
    /\ ri' = 1
    /\ pc' = "roots_loop"
    /\ UNCHANGED <<copied, preset, raised>>
    /\ UNCHANGED mainVars

(* One pass of the loop over roots: the root's zones are appended and, with *)
(* copy_samples, their samples copied; or the vel_map loop raises           *)
MakeTalRoot ==
    /\ pc = "roots_loop"
    /\ ri <= Len(roots)
    /\ LET r == roots[ri]
           keys == key_ranges[r]
           samples == by_note[r]
           vm == build_vel_map(samples, Len(samples), args.on_duplicate)
       IN  IF ~any_vel(samples)
           THEN /\ multis' = multis \o zones_no_vel(r, samples, keys, args.copy_samples)
                /\ copied' = IF args.copy_samples
                             THEN copied \cup {samples[1].path} ELSE copied
                /\ ri' = ri + 1
                /\ UNCHANGED <<pc, raised>>
           ELSE IF vm.raised
                THEN /\ raised' = Some(ValueError)
                     /\ pc' = "raised"
                     /\ UNCHANGED <<multis, copied, ri>>
                ELSE /\ multis' = multis \o zones_of_vel_map(r, vm.map, keys,
                                                             args.copy_samples)
                     /\ copied' = IF args.copy_samples
                                  THEN copied \cup {vm.map[v].path : v \in DOMAIN vm.map}
                                  ELSE copied
                     /\ ri' = ri + 1
                     /\ UNCHANGED <<pc, raised>>
    /\ UNCHANGED <<by_note, roots, key_ranges, preset>>
    /\ UNCHANGED mainVars

(* After the loop the tree is written to preset_path *)
MakeTalWrite ==
    /\ pc = "roots_loop"
    /\ ri > Len(roots)
    /\ preset' = Some(multis)
    /\ pc' = "returned"
    /\ UNCHANGED <<by_note, roots, key_ranges, ri, multis, copied, raised>>
    /\ UNCHANGED mainVars

Next ==
    \/ MainStart
    \/ MainParse
    \/ MainCheckEntries
    \/ MakeTalBegin
    \/ MakeTalRoot
    \/ MakeTalWrite
    \/ MainPrint
    \/ MainUncaught

Spec == Init /\ [][Next]_vars

-----------------------------------------------------------------------------
(* make_tal called directly *)

InitCore ==
    /\ args \in [pattern : {None}, middle_c : {DefaultMiddleC}, copy_samples : BOOLEAN,
                 on_duplicate : Policies, low_spread : CoreSpreads,
                 high_spread : CoreSpreads]
    /\ sample_paths = << >>
    /\ pc = "make_tal"
    /\ p = 0
    /\ entries \in CoreEntryLists
    /\ stdout = << >>
    /\ exit_status = None
    /\ raised = None
    /\ by_note = << >>
    /\ roots = << >>
    /\ key_ranges = << >>
    /\ ri = 0
    /\ multis = << >>
    /\ copied = {}
    /\ preset = None

NextCore ==
    \/ MakeTalBegin
    \/ MakeTalRoot
    \/ MakeTalWrite

SpecCore == InitCore /\ [][NextCore]_vars

-----------------------------------------------------------------------------
(* compute_key_ranges alone, on sorted distinct roots of the keyboard *)

InitKeys ==
    /\ args \in [pattern : {None}, middle_c : {DefaultMiddleC}, copy_samples : {FALSE},
                 on_duplicate : {"keep-last"}, low_spread : KeySpreads,
                 high_spread : KeySpreads]
    /\ sample_paths = << >>
    /\ pc = "compute_key_ranges"
    /\ p = 0
    /\ entries = << >>
    /\ stdout = << >>
    /\ exit_status = None
    /\ raised = None
    /\ by_note = << >>
    /\ roots \in {sorted(S) : S \in {T \in SUBSET RootPool :
                                        T # {} /\ Cardinality(T) <= MaxRoots}}
    /\ key_ranges = << >>
    /\ ri = 0
    /\ multis = << >>
    /\ copied = {}
    /\ preset = None

ComputeKeyRanges ==
    /\ pc = "compute_key_ranges"
    /\ key_ranges' = compute_key_ranges(roots, args.low_spread, args.high_spread)
    /\ pc' = "key_ranges_done"
    /\ UNCHANGED <<by_note, roots, ri, multis, copied, preset, raised>>
    /\ UNCHANGED mainVars

NextKeys == ComputeKeyRanges

SpecKeys == InitKeys /\ [][NextKeys]_vars

-----------------------------------------------------------------------------
(* Notions the claims are stated with *)

KeysOf(z) == z.lowkey .. z.highkey
VelsOf(z) == z.velocitystart .. z.velocityend

(* Two entries that share a root and a declared velocity *)
Collides(i, j) ==
    /\ i # j
    /\ entries[i].root_midi = entries[j].root_midi
    /\ entries[i].vel_hi # None
    /\ entries[i].vel_hi = entries[j].vel_hi

HasCollision == \E i, j \in DOMAIN entries : Collides(i, j)

(* make_tal has been entered with the entries as they are now *)
InMakeTal == pc \in {"make_tal", "roots_loop", "raised", "returned", "exit"}

(* Every entry is a SampleEntry of the data model *)
ValidEntry(e) ==
    /\ e.root_midi \in 0..MaxKey
    /\ e.vel_hi = None \/ Val(e.vel_hi) \in MinVel..MaxVel

ValidEntries == \A i \in DOMAIN entries : ValidEntry(entries[i])

ZonesOfRoot(zs, r) == SelectSeq(zs, LAMBDA z : z.rootkey = r)

DeclaredVels(r) ==
    {Val(entries[i].vel_hi) : i \in {j \in DOMAIN entries :
                                        /\ entries[j].root_midi = r
                                        /\ entries[j].vel_hi # None}}

(* The zones of root r in zs split [0,127] into consecutive, non-empty     *)
(* velocity ranges, one per declared velocity (one zone when none is)      *)
VelPartition(zs, r) ==
    LET z == ZonesOfRoot(zs, r)
        m == Len(z)
    IN  /\ m = IF DeclaredVels(r) = {} THEN 1 ELSE Cardinality(DeclaredVels(r))
        /\ z[1].velocitystart = 0
        /\ z[m].velocityend = MaxVel
        /\ \A j \in 1..m : z[j].velocitystart <= z[j].velocityend
        /\ \A j \in 2..m : z[j].velocitystart = z[j - 1].velocityend + 1

(* The files main's loop passed over without an entry *)
Excluded == Len(sample_paths) - Len(entries)

Abs(x) == IF x < 0 THEN 0 - x ELSE x

(* The root whose key range holds key k *)
Owns(r, k) == k >= key_ranges[r][1] /\ k <= key_ranges[r][2]

-----------------------------------------------------------------------------
(* C1: with no spread configured, the key ranges of sorted distinct roots  *)
(* in [0,127] partition [0,127]: the first starts at 0, the last ends at   *)
(* 127, each low is the previous high + 1, every low <= high; one root     *)
(* gets [0,127].  (SpecKeys)                                               *)
C1_KeyRangesPartition ==
    (pc = "key_ranges_done" /\ args.low_spread = None /\ args.high_spread = None)
    => LET n == Len(roots)
       IN  /\ key_ranges[roots[1]][1] = 0
           /\ key_ranges[roots[n]][2] = MaxKey
           /\ \A i \in 2..n :
                key_ranges[roots[i]][1] = key_ranges[roots[i - 1]][2] + 1
           /\ \A i \in 1..n : key_ranges[roots[i]][1] <= key_ranges[roots[i]][2]
           /\ (n = 1 => key_ranges[roots[1]] = <<0, MaxKey>>)

(* C1 witness: ranges computed without spreads for neighbouring roots *)
C1_Witness ==
    /\ pc = "key_ranges_done"
    /\ args.low_spread = None /\ args.high_spread = None
    /\ Len(roots) >= 3
    /\ roots[2] = roots[1] + 1

(* C9: a key inside a root's key range has that root as a pitch-nearest    *)
(* root, the lower one when two are equally near; with no spreads every    *)
(* key of [0,127] is inside some range.  (SpecKeys)                        *)
C9_NearestRootOwnsKey ==
    pc = "key_ranges_done"
    => /\ \A k \in 0..MaxKey : \A r \in Range(roots) :
            Owns(r, k) =>
                \A r2 \in Range(roots) :
                    /\ Abs(k - r) <= Abs(k - r2)
                    /\ (Abs(k - r) = Abs(k - r2) => r <= r2)
       /\ (args.low_spread = None /\ args.high_spread = None)
            => \A k \in 0..MaxKey : \E r \in Range(roots) : Owns(r, k)

(* C9 witness: a key equally near two roots is inside the lower one's range *)
C9_Witness ==
    /\ pc = "key_ranges_done"
    /\ \E i \in 1..(Len(roots) - 1) : \E k \in 0..MaxKey :
            /\ k - roots[i] = roots[i + 1] - k
            /\ Owns(roots[i], k)

(* C3: no two zones make_tal emits overlap in (key, velocity).  (SpecCore) *)
C3_NoZoneOverlap ==
    \A i, j \in DOMAIN multis :
        i < j => (KeysOf(multis[i]) \cap KeysOf(multis[j]) = {}
                  \/ VelsOf(multis[i]) \cap VelsOf(multis[j]) = {})

(* C3 witness: make_tal returned two velocity layers of one root whose     *)
(* ranges touch                                                            *)
C3_Witness ==
    /\ pc = "returned"
    /\ \E i, j \in DOMAIN multis :
            /\ multis[i].rootkey = multis[j].rootkey
            /\ multis[j].velocitystart = multis[i].velocityend + 1
            /\ KeysOf(multis[i]) # {}

(* C2: for every root of make_tal's output the velocity ranges of its      *)
(* zones partition [0,127]: one zone per distinct declared velocity,       *)
(* ascending from 0, each low the previous high + 1, the last high 127;    *)
(* one zone [0,127] when no velocity is declared.  (Spec; violated)        *)
C2_VelocityPartition ==
    pc = "returned" => \A r \in Range(roots) : VelPartition(Val(preset), r)

(* C4: under policy error, two entries sharing a root and a declared       *)
(* velocity make make_tal abort: it never returns and writes no preset.    *)
(* (Spec; violated)                                                        *)
C4_ErrorAbortsWithoutOutput ==
    (InMakeTal /\ args.on_duplicate = "error" /\ HasCollision)
    => /\ preset = None
       /\ pc # "returned"
       /\ (pc = "exit" => raised # None)

(* C5: the failure policy error raises carries the offending root and the  *)
(* offending velocity.  (Spec; violated)                                   *)
C5_FailureCarriesRootAndVelocity ==
    raised # None
    => \E i, j \in DOMAIN entries :
            /\ Collides(i, j)
            /\ entries[i].root_midi \in Range(Val(raised).data)
            /\ Val(entries[i].vel_hi) \in Range(Val(raised).data)

(* C6: for every (root, declared velocity) shared by two or more entries,  *)
(* exactly one zone refers to one of them: the first in input order under  *)
(* keep-first, the last under keep-last.  (Spec; violated)                 *)
C6_KeepFirstKeepLast ==
    (pc = "returned" /\ args.on_duplicate \in {"keep-first", "keep-last"})
    => \A i \in DOMAIN entries :
            LET grp == {j \in DOMAIN entries :
                            /\ entries[j].root_midi = entries[i].root_midi
                            /\ entries[j].vel_hi # None
                            /\ entries[j].vel_hi = entries[i].vel_hi}
                kept == IF args.on_duplicate = "keep-first"
                        THEN CHOOSE j \in grp : \A k \in grp : j <= k
                        ELSE CHOOSE j \in grp : \A k \in grp : j >= k
                zs == {k \in DOMAIN multis :
                            multis[k].url.file \in {entries[j].path : j \in grp}}
            IN  Cardinality(grp) >= 2
                => /\ Cardinality(zs) = 1
                   /\ \A k \in zs : multis[k].url.file = entries[kept].path

(* C7: a run of main that excluded files for want of a root tells its      *)
(* caller how many: the count is part of what main prints.                 *)
(* (Spec; violated)                                                        *)
C7_ExcludedCountObservable ==
    (pc = "exit" /\ exit_status = Some(0) /\ Excluded > 0)
    => \E i \in DOMAIN stdout : stdout[i] = [excluded |-> Excluded]

(* C8: every SampleEntry main creates has its root in [0,127] and its      *)
(* velocity absent or in [1,127].  (Spec; violated)                        *)
C8_ParsedEntriesInRange == ValidEntries

(* C10: no sample is copied before every root's zones are assembled and    *)
(* every duplicate check has passed; a run that aborts has copied nothing. *)
(* (Spec; violated)                                                        *)
C10_CopyOnlyAfterAssembly ==
    copied # {}
    => /\ raised = None
       /\ \/ pc \in {"returned", "exit"}
          \/ (pc = "roots_loop" /\ ri > Len(roots))

-----------------------------------------------------------------------------
(* What C2, C4 and C6 say does hold of make_tal on entries of the data     *)
(* model (root in [0,127], velocity absent or in [1,127]); main does not   *)
(* keep its entries inside it (C8).                                        *)

VelocityPartitionOfValidEntries == ValidEntries => C2_VelocityPartition
ErrorAbortsOnValidEntries == ValidEntries => C4_ErrorAbortsWithoutOutput
KeepFirstKeepLastOnValidEntries == ValidEntries => C6_KeepFirstKeepLast

====
